---- MODULE Spec2Model ----
(***************************************************************************)
(* Model of jl2922/msci: ChemSystem (setup, setup_hci_queue,               *)
(* get_hci_queue_elem, find_connected_dets) and the Green's function       *)
(* solver (Green::run, construct_pdets, construct_b, cg).                  *)
(*                                                                         *)
(* Numbers.  Coupling magnitudes and matrix elements are small integers.   *)
(* A value scaled by Util::SQRT2 / Util::SQRT2_INV is kept exactly as a    *)
(* pair <<m, e>> standing for m * sqrt(2)^e, and a comparison against a    *)
(* bound scaled by sqrt(2) is done on the squares.                         *)
(***************************************************************************)
EXTENDS Integers, Sequences, FiniteSets, TLC

\* ---------------------------------------------------------------- bounds
MaxOrbs == 3      \* n_orbs ranges over 1..MaxOrbs
MaxSym == 2       \* irreps are 1..MaxSym (symmetry starts from 1)
MaxH == 1         \* Hamiltonian elements range over -MaxH..MaxH
MaxEps == 1       \* window bounds range over 0..MaxEps

VARIABLES
  \* ChemSystem fields (in a run of several processes: those of rank 0)
  n_orbs, orb_sym, n_up, n_dn, time_sym, z,
  \* find_connected_dets: arguments, locals, loop position; the handler's
  \* latest call (n = 1 once called) and the determinants it has received
  det, eps_max_in, eps_min_in, connected_det, p_id, r, last_call, delivered,
  \* configuration, integrals and the excitation queue
  point_group_str, point_group, integrals_2b, sort_order,
  sym_orbs, hci_queue, max_hci_queue_elem, n_entries,
  \* the process: where it is, its exit status, what it printed to stderr
  pc, exit_status, diagnostic,
  \* ChemSystem::setup: the number of processes, the configuration, the
  \* integrals on disk, the Integrals object, and the ChemSystem of each
  \* other rank
  n_procs, config, integrals_file, integrals, peers,
  \* the basis of the system: system.dets, system.coefs
  dets, coefs,
  \* Green::cg: the loop, iter, residual, and |r.r| of the current r
  cg_pc, iter, residual, rr_cur,
  \* Green: fields, the column being solved, the calls of run so far
  dets_store, coefs_store, n_dets, n_pdets, pdet_to_id, G, green_pc, col,
  runs,
  \* whether an index into G, or into a right-hand side b, left its vector
  g_access, b_access

fcdVars == <<n_orbs, orb_sym, n_up, n_dn, time_sym, z,
             det, eps_max_in, eps_min_in, connected_det, p_id, r, last_call, delivered>>

queueVars == <<point_group_str, point_group, integrals_2b, sort_order,
               sym_orbs, hci_queue, max_hci_queue_elem, n_entries,
               pc, exit_status, diagnostic>>

setupVars == <<n_procs, config, integrals_file, integrals, peers>>

basisVars == <<dets, coefs>>

cgVars == <<cg_pc, iter, residual, rr_cur>>

greenVars == <<dets_store, coefs_store, n_dets, n_pdets, pdet_to_id, G,
               green_pc, col, runs, g_access, b_access>>

vars == <<fcdVars, queueVars, setupVars, basisVars, cgVars, greenVars>>

\* values of the variables a specification does not use
QueueUnused ==
  /\ point_group_str = <<>> /\ point_group = "None" /\ integrals_2b = <<>>
  /\ sort_order = "keep" /\ sym_orbs = <<>> /\ hci_queue = <<>>
  /\ max_hci_queue_elem = 0 /\ n_entries = 0
  /\ pc = "unused" /\ exit_status = 0 /\ diagnostic = "none"

SetupUnused ==
  /\ n_procs = 1 /\ config = <<>> /\ integrals_file = <<>>
  /\ integrals = <<>> /\ peers = <<>>

BasisUnused == dets = <<>> /\ coefs = <<>>

CgUnused ==
  /\ cg_pc = "unused" /\ iter = 0
  /\ residual = [kind |-> "zero", exp |-> 0]
  /\ rr_cur = [kind |-> "zero", exp |-> 0]

GreenUnused ==
  /\ dets_store = <<>> /\ coefs_store = <<>> /\ n_dets = 0 /\ n_pdets = 0
  /\ pdet_to_id = <<>> /\ G = <<>> /\ green_pc = "unused" /\ col = 0
  /\ runs = 0 /\ g_access = "in_bounds" /\ b_access = "in_bounds"

\* ------------------------------------------------------- determinant model
Orbs(n) == 0 .. (n - 1)

RECURSIVE Pow2(_)
Pow2(k) == IF k = 0 THEN 1 ELSE 2 * Pow2(k - 1)

RECURSIVE Encode(_)
\* the integer whose bit k is set iff orbital k is occupied
Encode(S) == IF S = {} THEN 0
             ELSE LET k == CHOOSE x \in S : TRUE IN Pow2(k) + Encode(S \ {k})

\* HalfDet::operator>
HalfDetGT(a, b) == Encode(a) > Encode(b)

RECURSIVE SortedSeq(_)
\* HalfDet::get_occupied_orbs: the occupied orbitals in ascending order
SortedSeq(S) == IF S = {} THEN <<>>
                ELSE LET k == CHOOSE x \in S : \A y \in S : x <= y
                     IN <<k>> \o SortedSeq(S \ {k})

Dets(n) == [up : SUBSET Orbs(n), dn : SUBSET Orbs(n)]

Abs(x) == IF x < 0 THEN -x ELSE x

\* ------------------------------------------- ChemSystem::find_connected_dets
HVals == (-MaxH) .. MaxH
EpsVals == 0 .. MaxEps

n_elecs == n_up + n_dn

\* abs(x) > bound, where bound is bound_in * Util::SQRT2 under time_sym
AbsGT(x, bound_in) ==
  IF time_sym THEN x * x > 2 * bound_in * bound_in ELSE Abs(x) > bound_in

\* abs(x) < bound, where bound is bound_in * Util::SQRT2 under time_sym
AbsLT(x, bound_in) ==
  IF time_sym THEN x * x < 2 * bound_in * bound_in ELSE Abs(x) < bound_in

\* the window test of the scan: TRUE when the candidate is rejected
OutsideWindow(matrix_elem) ==
  AbsGT(matrix_elem, eps_max_in) \/ AbsLT(matrix_elem, eps_min_in)

InScan == p_id < n_elecs
UpChannel == p_id < n_up

\* const unsigned p = p_id < n_up ? occ_orbs_up[p_id] : occ_orbs_dn[p_id - n_up];
P == IF UpChannel THEN SortedSeq(det.up)[p_id + 1]
     ELSE SortedSeq(det.dn)[p_id - n_up + 1]

Occupied == IF UpChannel THEN r \in det.up ELSE r \in det.dn

\* connected_det.up.unset(p).set(r) / connected_det.dn.unset(p).set(r)
Excite(d, p, q) ==
  IF UpChannel THEN [d EXCEPT !.up = (@ \ {p}) \cup {q}]
  ELSE [d EXCEPT !.dn = (@ \ {p}) \cup {q}]

Cand == Excite(connected_det, P, r)

\* the two time-reversal tests made before the matrix element is computed
TimeSymSkip(c) ==
  /\ time_sym
  /\ \/ (c.up = c.dn /\ z < 0)
     \/ (c.up = det.dn /\ c.dn = det.up)

\* mutant of Canonical: the swap is left out
CanonicalNoSwap(c) == c

\* the swap of the up and down sets when up > dn
Canonical(c) ==
  IF HalfDetGT(c.up, c.dn) THEN [up |-> c.dn, dn |-> c.up] ELSE c

\* the exponent of sqrt(2) the matrix element is scaled by
ScaleExp(c) ==
  IF det.up = det.dn /\ c.up # c.dn THEN -1
  ELSE IF det.up # det.dn /\ c.up = c.dn THEN 1
  ELSE 0

\* the values get_hamiltonian_elem(det, c) may return (0.0 included)
get_hamiltonian_elem(a, c) == HVals

\* no handler call made yet
NoCall == [det |-> [up |-> {}, dn |-> {}], elem |-> <<0, 0>>,
           cand |-> [up |-> {}, dn |-> {}], raw |-> 0, n |-> 0]

\* the loop increments of r and p_id
Advance ==
  /\ r' = IF r + 1 < n_orbs THEN r + 1 ELSE 0
  /\ p_id' = IF r + 1 < n_orbs THEN p_id ELSE p_id + 1

FixedFCD == UNCHANGED <<n_orbs, orb_sym, n_up, n_dn, time_sym, z,
                        det, eps_max_in, eps_min_in, queueVars,
                        setupVars, basisVars, cgVars, greenVars>>

\* if (det.up.has(r)) continue; / if (det.dn.has(r)) continue;
SkipOccupied ==
  /\ InScan /\ Occupied
  /\ Advance
  /\ UNCHANGED <<connected_det, last_call, delivered>> /\ FixedFCD

\* if (orb_sym[r] != sym_p) continue;
SkipSym ==
  /\ InScan /\ ~Occupied /\ orb_sym[r] # orb_sym[P]
  /\ Advance
  /\ UNCHANGED <<connected_det, last_call, delivered>> /\ FixedFCD

\* the continue of the time-reversal tests: connected_det keeps the move
SkipTimeSym ==
  /\ InScan /\ ~Occupied /\ orb_sym[r] = orb_sym[P]
  /\ TimeSymSkip(Cand)
  /\ connected_det' = Cand
  /\ Advance
  /\ UNCHANGED <<last_call, delivered>> /\ FixedFCD

\* the continue of the window test: connected_det keeps the move
SkipWindow ==
  /\ InScan /\ ~Occupied /\ orb_sym[r] = orb_sym[P]
  /\ ~TimeSymSkip(Cand)
  /\ \E h \in get_hamiltonian_elem(det, Cand) : OutsideWindow(h)
  /\ connected_det' = Cand
  /\ Advance
  /\ UNCHANGED <<last_call, delivered>> /\ FixedFCD

\* the candidate passes: scale, canonicalize, call the handler, move back
Deliver ==
  /\ InScan /\ ~Occupied /\ orb_sym[r] = orb_sym[P]
  /\ ~TimeSymSkip(Cand)
  /\ \E h \in get_hamiltonian_elem(det, Cand) :
       /\ ~OutsideWindow(h)
       /\ LET swapped == time_sym /\ Canonical(Cand) # Cand
              out == IF time_sym THEN Canonical(Cand) ELSE Cand
              m == IF swapped THEN h * z ELSE h
              e == IF time_sym THEN ScaleExp(Cand) ELSE 0
          IN /\ last_call' = [det |-> out, elem |-> <<m, e>>, cand |-> Cand,
                              raw |-> h, n |-> 1]
             /\ delivered' = delivered \cup {out}
             /\ connected_det' = Excite(out, r, P)
  /\ Advance
  /\ FixedFCD

\* The scan compares irrep labels for equality only, so the labelings are
\* taken up to renaming: orbital 0 has irrep 1 and every further orbital has
\* an irrep already in use or the next unused one.
FirstUse(f) ==
  \A k \in DOMAIN f :
    \/ f[k] = 1
    \/ \E j \in DOMAIN f : j < k /\ f[j] >= f[k] - 1

InitFCD ==
  /\ n_orbs \in 1 .. MaxOrbs
  /\ orb_sym \in [Orbs(n_orbs) -> 1 .. MaxSym]
  /\ FirstUse(orb_sym)
  /\ det \in Dets(n_orbs)
  /\ n_up = Cardinality(det.up)
  /\ n_dn = Cardinality(det.dn)
  /\ time_sym \in BOOLEAN
  /\ z \in {-1, 1}
  /\ eps_max_in \in EpsVals
  /\ eps_min_in \in EpsVals
  /\ eps_min_in <= eps_max_in
  /\ connected_det = det
  /\ p_id = 0
  /\ r = 0
  /\ last_call = NoCall
  /\ delivered = {}
  /\ QueueUnused /\ SetupUnused /\ BasisUnused /\ CgUnused /\ GreenUnused

NextFCD == SkipOccupied \/ SkipSym \/ SkipTimeSym \/ SkipWindow \/ Deliver

SpecFCD == InitFCD /\ [][NextFCD]_vars

FcdDone == p_id = n_elecs

\* find_connected_dets with time-reversal enabled and z = +1
InitTR == InitFCD /\ time_sym /\ z = 1

SpecTR == InitTR /\ [][NextFCD]_vars

\* ----------------------------------------------------- claims C1, C2, C10
Swap(d) == [up |-> d.dn, dn |-> d.up]

OneMove(A, B) ==
  \E p \in A : \E q \in Orbs(n_orbs) \ A :
    orb_sym[p] = orb_sym[q] /\ B = (A \ {p}) \cup {q}

IsSingleExcitation(d) ==
  \/ (d.dn = det.dn /\ OneMove(det.up, d.up))
  \/ (d.up = det.up /\ OneMove(det.dn, d.dn))

\* C1: every pair delivered to the handler satisfies
\* eps_min <= |matrix element| < eps_max, the upper bound exclusive. With
\* time-reversal disabled the bounds are the ones passed in and the element
\* is the one delivered; with it enabled they are the bounds scaled by
\* sqrt(2), against the element the window test saw.
C1_WindowHalfOpen ==
  last_call.n = 1 =>
    IF time_sym
    THEN ~AbsLT(last_call.raw, eps_min_in) /\ AbsLT(last_call.raw, eps_max_in)
    ELSE /\ last_call.elem[2] = 0
         /\ eps_min_in <= Abs(last_call.elem[1])
         /\ Abs(last_call.elem[1]) < eps_max_in

C10_TimeReversalCanonical ==
  (time_sym /\ z = 1) =>
    /\ \A d \in delivered : ~HalfDetGT(d.up, d.dn)
    /\ \A d \in delivered : d.up # d.dn => Swap(d) \notin delivered
    /\ last_call.n = 1 => last_call.cand # Swap(det)
    /\ Swap(det) \notin delivered

\* C10 witness: a candidate with up > dn was swapped and delivered
C10_SwapDelivered ==
  /\ time_sym /\ z = 1
  /\ last_call.n = 1
  /\ HalfDetGT(last_call.cand.up, last_call.cand.dn)
  /\ last_call.det = Swap(last_call.cand)
  /\ last_call.det \in delivered

\* ------------------------------------------------ configuration, symmetry
\* tolower on the letters the point group names use
ToLower(c) == CASE c = "D" -> "d" [] c = "H" -> "h" [] c = "O" -> "o"
                [] c = "I" -> "i" [] c = "C" -> "c" [] OTHER -> c

\* Util::str_iequals on strings kept as sequences of characters
str_iequals(a, b) ==
  /\ Len(a) = Len(b)
  /\ \A i \in 1 .. Len(a) : ToLower(a[i]) = ToLower(b[i])

\* ChemSystem::get_point_group
get_point_group(str) ==
  IF str_iequals(<<"D", "2", "h">>, str) THEN "D2h"
  ELSE IF str_iequals(<<"D", "o", "o", "h">>, str)
          \/ str_iequals(<<"D", "i", "h">>, str) THEN "Dooh"
  ELSE "None"

\* the values of chem.point_group the model runs with (the product table
\* modelled is that of D2h; Dooh never gets to use one)
PointGroupStrings ==
  { <<"D", "2", "h">>, <<"D", "o", "o", "h">>, <<"d", "I", "H">> }

\* ProductTable::get_n_syms for D2h
get_n_syms == 8

RECURSIVE Xor(_, _)
Xor(x, y) == IF x = 0 /\ y = 0 THEN 0
             ELSE (((x % 2) + (y % 2)) % 2) + 2 * Xor(x \div 2, y \div 2)

\* ProductTable::get_product: the product of irreps of D2h, irreps from 1
get_product(a, b) == Xor(a - 1, b - 1) + 1

\* Integrals::combine2: the index of an unordered pair
combine2(a, b) == IF a > b THEN (a * (a + 1)) \div 2 + b
                  ELSE (b * (b + 1)) \div 2 + a

\* Integrals::get_2b: the stored two-body integral (ij|kl)
get_2b(i, j, k, l) == integrals_2b[combine2(combine2(i, j), combine2(k, l))]

\* HalfDet::diff: the orbitals of a not in b, and of b not in a, ascending
Diff(a, b) == <<SortedSeq(a \ b), SortedSeq(b \ a)>>

\* the value both same-spin branches of get_two_body_double compute
TwoBodySame(d) ==
  IF Len(d[1]) # 2 \/ Len(d[2]) # 2 THEN 0
  ELSE get_2b(d[1][1], d[2][1], d[1][2], d[2][2])
       - get_2b(d[1][1], d[2][2], d[1][2], d[2][1])

\* ChemSystem::get_two_body_double (no_sign = true)
get_two_body_double(det_i, det_j) ==
  IF det_i.up = det_j.up THEN TwoBodySame(Diff(det_i.dn, det_j.dn))
  ELSE IF det_i.dn = det_j.dn THEN TwoBodySame(Diff(det_i.up, det_j.up))
  ELSE LET du == Diff(det_i.up, det_j.up)
           dd == Diff(det_i.dn, det_j.dn)
       IN IF Len(du[1]) # 1 \/ Len(du[2]) # 1 THEN 0
          ELSE IF Len(dd[1]) # 1 \/ Len(dd[2]) # 1 THEN 0
          ELSE get_2b(du[1][1], du[2][1], dd[1][1], dd[2][1])

\* ChemSystem::get_hci_queue_elem; p < n_orbs at every call of the builder
get_hci_queue_elem(p, q, rr, ss) ==
  IF p = q \/ rr = ss \/ p = rr \/ q = ss \/ p = ss \/ q = rr THEN 0
  ELSE IF q < n_orbs
       THEN Abs(get_two_body_double([up |-> {p, q}, dn |-> {}],
                                    [up |-> {rr, ss}, dn |-> {}]))
       ELSE Abs(get_two_body_double([up |-> {p}, dn |-> {q - n_orbs}],
                                    [up |-> {rr}, dn |-> {ss - n_orbs}]))

\* ---------------------------------------------- ChemSystem::setup_hci_queue
MaxQueueOrbs == 5   \* the queue is built for n_orbs in 1..MaxQueueOrbs
MaxOrbSym == 2      \* the orbitals' irreps range over 1..MaxOrbSym
MaxSeed == 1        \* the integral tables are numbered 0..MaxSeed

\* the integral tables the model runs with: values in -2..2, indexed by
\* the combined index of (ij|kl)
IntegralTable(seed, n) ==
  [x \in 0 .. combine2(combine2(n, n), combine2(n, n)) |->
     (((x + 1) * (seed + 2) + x * x * (seed + 1)) % 5) - 2]

\* for (orb...) sym_orbs[orb_sym[orb]].push_back(orb), after the resize
SymOrbs ==
  [sym \in 0 .. get_n_syms |->
     SortedSeq({orb \in Orbs(n_orbs) : orb_sym[orb] = sym})]

Hrs(H, rr, ss) == [H |-> H, r |-> rr, s |-> ss]

RECURSIVE SameInner(_, _, _, _)
\* the loop over s in sym_orbs[sym_r] of the same-spin part
SameInner(p, q, rr, list) ==
  IF list = <<>> THEN <<>>
  ELSE LET ss == Head(list)
           H == get_hci_queue_elem(p, q, rr, ss)
           rest == SameInner(p, q, rr, Tail(list))
       IN IF ss < rr THEN rest
          ELSE IF H = 0 THEN rest
          ELSE <<Hrs(H, rr, ss)>> \o rest

RECURSIVE SameOuter(_, _, _, _)
\* the loop over r of the same-spin part, from r = rr on; so is sym_orbs
SameOuter(p, q, rr, so) ==
  IF rr >= n_orbs THEN <<>>
  ELSE LET sym_q == get_product(orb_sym[p], orb_sym[q])
           sym_r == get_product(sym_q, orb_sym[rr])
       IN SameInner(p, q, rr, so[sym_r]) \o SameOuter(p, q, rr + 1, so)

RECURSIVE OppInner(_, _, _, _)
\* the loop over s in sym_orbs[sym_r] of the opposite-spin part
OppInner(p, q, rr, list) ==
  IF list = <<>> THEN <<>>
  ELSE LET ss == Head(list)
           H == get_hci_queue_elem(p, q, rr, ss + n_orbs)
           rest == OppInner(p, q, rr, Tail(list))
       IN IF H = 0 THEN rest
          ELSE <<Hrs(H, rr, ss + n_orbs)>> \o rest

RECURSIVE OppOuter(_, _, _, _)
\* the loop over r of the opposite-spin part, from r = rr on; so is sym_orbs
OppOuter(p, q, rr, so) ==
  IF rr >= n_orbs THEN <<>>
  ELSE LET sym_q == get_product(orb_sym[p], orb_sym[q - n_orbs])
           sym_r == get_product(sym_q, orb_sym[rr])
       IN OppInner(p, q, rr, so[sym_r]) \o OppOuter(p, q, rr + 1, so)

RECURSIVE Reverse(_)
Reverse(seq) == IF seq = <<>> THEN <<>>
                ELSE Reverse(Tail(seq)) \o <<Head(seq)>>

RECURSIVE InsertDesc(_, _)
\* x put after the last element e with e.H >= x.H
InsertDesc(x, sorted) ==
  IF sorted = <<>> THEN <<x>>
  ELSE IF Head(sorted).H >= x.H
       THEN <<Head(sorted)>> \o InsertDesc(x, Tail(sorted))
       ELSE <<x>> \o sorted

RECURSIVE StableSortDesc(_)
StableSortDesc(seq) ==
  IF seq = <<>> THEN <<>>
  ELSE InsertDesc(seq[Len(seq)], StableSortDesc(SubSeq(seq, 1, Len(seq) - 1)))

\* mutant of SortByH: the bucket is left in the order of the loops
SortByHOmitted(seq) == seq

\* std::sort with the comparator a.H > b.H. The order of entries of equal H
\* is the library's: they keep the order of the loops or come out reversed.
SortByH(seq) ==
  IF sort_order = "keep" THEN StableSortDesc(seq)
  ELSE StableSortDesc(Reverse(seq))

\* the same-spin origin pairs and the opposite-spin origin pairs of the loops
SamePairs == {pq \in Orbs(n_orbs) \X Orbs(n_orbs) : pq[1] < pq[2]}

\* mutant of OppPairs: q starts at n_orbs + p + 1
OppPairsNoDiagonal ==
  {pq \in Orbs(n_orbs) \X (n_orbs .. 2 * n_orbs - 1) : pq[2] > n_orbs + pq[1]}

OppPairs ==
  {pq \in Orbs(n_orbs) \X (n_orbs .. 2 * n_orbs - 1) : pq[2] >= n_orbs + pq[1]}

\* the queue after both parts: hci_queue.resize, then one bucket per pair;
\* so is sym_orbs
BuiltQueue(so) ==
  LET same == [pq \in SamePairs |-> SortByH(SameOuter(pq[1], pq[2], 0, so))]
      opp == [pq \in OppPairs |-> SortByH(OppOuter(pq[1], pq[2], 0, so))]
  IN [i \in 0 .. combine2(n_orbs, 2 * n_orbs) - 1 |->
        IF \E pq \in SamePairs : combine2(pq[1], pq[2]) = i
        THEN same[CHOOSE pq \in SamePairs : combine2(pq[1], pq[2]) = i]
        ELSE IF \E pq \in OppPairs : combine2(pq[1], pq[2]) = i
        THEN opp[CHOOSE pq \in OppPairs : combine2(pq[1], pq[2]) = i]
        ELSE <<>>]

RECURSIVE SumLen(_, _)
SumLen(queue, S) ==
  IF S = {} THEN 0
  ELSE LET i == CHOOSE x \in S : TRUE
       IN Len(queue[i]) + SumLen(queue, S \ {i})

\* the std::max chain over a set of magnitudes, from 0.0
MaxOf(S) == IF S = {} THEN 0 ELSE CHOOSE y \in S : \A w \in S : w <= y

SameIdx == {combine2(pq[1], pq[2]) : pq \in SamePairs}
OppIdx == {combine2(pq[1], pq[2]) : pq \in OppPairs}

\* max_hci_queue_elem: over the front of every sorted same-spin bucket and
\* over every H pushed to an opposite-spin bucket
MaxElem(queue) ==
  MaxOf({queue[i][1].H : i \in {j \in SameIdx : queue[j] # <<>>}}
        \cup UNION {{queue[i][k].H : k \in 1 .. Len(queue[i])} : i \in OppIdx})

\* n_entries: a same-spin bucket is counted once, after its sort; an entry
\* of an opposite-spin bucket at its push and again after the sort
NEntries(queue) == SumLen(queue, SameIdx) + 2 * SumLen(queue, OppIdx)

FcdUnused ==
  /\ n_up = 0 /\ n_dn = 0 /\ time_sym = FALSE /\ z = 1
  /\ det = [up |-> {}, dn |-> {}] /\ eps_max_in = 0 /\ eps_min_in = 0
  /\ connected_det = [up |-> {}, dn |-> {}] /\ p_id = 0 /\ r = 0
  /\ last_call = NoCall /\ delivered = {}

FixedQueue == UNCHANGED <<fcdVars, point_group_str, point_group,
                          integrals_2b, sort_order,
                          setupVars, basisVars, cgVars, greenVars>>

\* setup_hci_queue running to its end
SetupHciQueue ==
  /\ pc = "setup_hci_queue"
  /\ point_group # "Dooh" \/ n_orbs = 0
  /\ sym_orbs' = SymOrbs
  /\ hci_queue' = BuiltQueue(sym_orbs')
  /\ max_hci_queue_elem' = MaxElem(hci_queue')
  /\ n_entries' = NEntries(hci_queue')
  /\ pc' = "queue_built"
  /\ UNCHANGED <<exit_status, diagnostic>>
  /\ FixedQueue

\* if (point_group == PointGroup::Dooh) exit(0), in the first pass of the
\* loop over r: sym_orbs is filled, the queue is resized and still empty
SetupHciQueueDooh ==
  /\ pc = "setup_hci_queue"
  /\ point_group = "Dooh" /\ n_orbs >= 1
  /\ sym_orbs' = SymOrbs
  /\ hci_queue' = [i \in 0 .. combine2(n_orbs, 2 * n_orbs) - 1 |-> <<>>]
  /\ max_hci_queue_elem' = 0
  /\ n_entries' = 0
  /\ pc' = "exited"
  /\ exit_status' = 0
  /\ diagnostic' = "none"
  /\ FixedQueue

InitQueue ==
  /\ n_orbs \in 1 .. MaxQueueOrbs
  /\ orb_sym \in [Orbs(n_orbs) -> 1 .. MaxOrbSym]
  /\ point_group_str \in PointGroupStrings
  /\ point_group = get_point_group(point_group_str)
  /\ \E seed \in 0 .. MaxSeed : integrals_2b = IntegralTable(seed, n_orbs)
  /\ sort_order \in {"keep", "reverse"}
  /\ sym_orbs = <<>>
  /\ hci_queue = <<>>
  /\ max_hci_queue_elem = 0
  /\ n_entries = 0
  /\ pc = "setup_hci_queue"
  /\ exit_status = 0
  /\ diagnostic = "none"
  /\ FcdUnused /\ SetupUnused /\ BasisUnused /\ CgUnused /\ GreenUnused

NextQueue == SetupHciQueue \/ SetupHciQueueDooh

SpecQueue == InitQueue /\ [][NextQueue]_vars

\* ------------------------------------------------------ claims C3, C5, C9
\* the destination pairs of a bucket
PairsOf(bucket) == {<<bucket[k].r, bucket[k].s>> : k \in 1 .. Len(bucket)}

\* the destinations (r, s), r < s, of the same-spin origin pair p < q: the
\* symmetry of (r, s) is that of (p, q), no index is shared, and the
\* antisymmetrized coupling is not zero
ExpectedSame(p, q) ==
  {rs \in Orbs(n_orbs) \X Orbs(n_orbs) :
     /\ rs[1] < rs[2]
     /\ {rs[1], rs[2]} \cap {p, q} = {}
     /\ get_product(orb_sym[rs[1]], orb_sym[rs[2]])
          = get_product(orb_sym[p], orb_sym[q])
     /\ get_2b(p, rs[1], q, rs[2]) # get_2b(p, rs[2], q, rs[1])}

\* the destinations (up r, down s) of the origin pair (up p, down q), the
\* down orbitals numbered from n_orbs
ExpectedOpp(p, q) ==
  {rs \in Orbs(n_orbs) \X (n_orbs .. 2 * n_orbs - 1) :
     /\ rs[1] # p /\ rs[2] # q
     /\ get_product(orb_sym[rs[1]], orb_sym[rs[2] - n_orbs])
          = get_product(orb_sym[p], orb_sym[q - n_orbs])
     /\ get_2b(p, rs[1], q - n_orbs, rs[2] - n_orbs) # 0}

BucketIs(p, q, expected) ==
  LET bucket == hci_queue[combine2(p, q)]
  IN PairsOf(bucket) = expected /\ Len(bucket) = Cardinality(expected)

SameSpinComplete ==
  \A p, q \in Orbs(n_orbs) : p < q => BucketIs(p, q, ExpectedSame(p, q))

C5_DoohFails ==
  (point_group = "Dooh" /\ pc # "setup_hci_queue") =>
    /\ pc = "exited"
    /\ exit_status # 0
    /\ diagnostic = "unsupported symmetry"

NonIncreasing(bucket) ==
  \A j, k \in 1 .. Len(bucket) : j < k => bucket[j].H >= bucket[k].H

\* C9: after setup_hci_queue the entries of every bucket, same-spin and
\* opposite-spin, are in non-increasing order of H, so the entries with
\* H >= t are a prefix of the bucket for every threshold t.
C9_BucketsSorted ==
  pc = "queue_built" =>
    \A i \in DOMAIN hci_queue :
      /\ NonIncreasing(hci_queue[i])
      /\ \A t \in 0 .. max_hci_queue_elem + 1 :
           \A k \in 1 .. Len(hci_queue[i]) :
             hci_queue[i][k].H >= t =>
               \A j \in 1 .. k : hci_queue[i][j].H >= t

\* C9 witness: a same-spin bucket and an opposite-spin bucket whose entries
\* were pushed in another order than the sorted one
C9_Witness ==
  /\ pc = "queue_built"
  /\ \E p, q \in Orbs(n_orbs) :
       /\ p < q
       /\ ~NonIncreasing(SameOuter(p, q, 0, sym_orbs))
       /\ Len(hci_queue[combine2(p, q)]) = Len(SameOuter(p, q, 0, sym_orbs))
  /\ \E p \in Orbs(n_orbs) : \E q \in n_orbs .. 2 * n_orbs - 1 :
       /\ q - n_orbs >= p
       /\ ~NonIncreasing(OppOuter(p, q, 0, sym_orbs))
       /\ Len(hci_queue[combine2(p, q)]) = Len(OppOuter(p, q, 0, sym_orbs))

\* ------------------------------------------------------------- Green::cg
\* A magnitude |r.r| is kept by its order: 10^-exp ("pos"), exactly zero, or
\* not a number. The vectors and the matrix stay outside the model: what
\* mul_green and dot_omp make of them is any magnitude the arithmetic allows.
IterCap == 100     \* if (iter > 100) throw
TolExp == 15       \* while (residual > 1.0e-15)
MaxExp == 17       \* the magnitudes are 10^0 .. 10^-MaxExp

Pos(k) == [kind |-> "pos", exp |-> k]
ZeroM == [kind |-> "zero", exp |-> 0]
NaNM == [kind |-> "nan", exp |-> 0]
Measures == {Pos(k) : k \in 0 .. MaxExp} \cup {ZeroM, NaNM}

\* m > 1.0e-15 (false of a NaN)
AboveTol(m) == m.kind = "pos" /\ m.exp < TolExp

\* m <= 1.0e-15
AtOrBelowTol(m) == m.kind = "zero" \/ (m.kind = "pos" /\ m.exp >= TolExp)

\* |r.r| after x += a p, r -= a Ap with a = rTr / pTAp, from |r.r| = m
\* before: a NaN stays one; from r.r = 0 the step is a = 0 (r unchanged) or
\* 0/0; from any other r the new r is whatever the matrix makes of it
AfterUpdate(m) ==
  IF m.kind = "nan" THEN {NaNM}
  ELSE IF m.kind = "zero" THEN {ZeroM, NaNM}
  ELSE Measures

FixedCg == UNCHANGED <<fcdVars, queueVars, setupVars, basisVars, greenVars>>

\* one pass of the loop that ends with iter <= 100
CgIterate ==
  /\ cg_pc = "loop" /\ AboveTol(residual)
  /\ iter + 1 <= IterCap
  /\ rr_cur' \in AfterUpdate(rr_cur)
  /\ residual' = rr_cur
  /\ iter' = iter + 1
  /\ cg_pc' = "loop"
  /\ FixedCg

\* the pass that ends with throw std::runtime_error("cg does not converge")
CgThrow ==
  /\ cg_pc = "loop" /\ AboveTol(residual)
  /\ iter + 1 > IterCap
  /\ rr_cur' \in AfterUpdate(rr_cur)
  /\ residual' = rr_cur
  /\ iter' = iter + 1
  /\ cg_pc' = "thrown"
  /\ FixedCg

\* the loop test fails: return x
CgReturn ==
  /\ cg_pc = "loop" /\ ~AboveTol(residual)
  /\ cg_pc' = "returned"
  /\ UNCHANGED <<iter, residual, rr_cur>>
  /\ FixedCg

\* r = b - A x0, x = x0, residual = 1.0, iter = 0
InitCg ==
  /\ cg_pc = "loop"
  /\ iter = 0
  /\ residual = Pos(0)
  /\ rr_cur \in Measures
  /\ n_orbs = 0 /\ orb_sym = <<>>
  /\ FcdUnused /\ QueueUnused /\ SetupUnused /\ BasisUnused /\ GreenUnused

NextCg == CgIterate \/ CgThrow \/ CgReturn

SpecCg == InitCg /\ [][NextCg]_vars

\* C6: every call of cg ends after at most IterCap + 1 passes, and it
\* returns x only when the residual measure of the r that belongs to the
\* returned x is at or below the tolerance; otherwise it throws.
C6_ReturnsConverged ==
  /\ iter <= IterCap + 1
  /\ cg_pc = "returned" => AtOrBelowTol(rr_cur)

\* ------------------------------------------------------ ChemSystem::setup
MaxProcs == 2        \* runs of 2..MaxProcs processes
MaxSetupOrbs == 2    \* the integrals on disk have 1..MaxSetupOrbs orbitals

\* an Integrals object nothing was loaded into
EmptyIntegrals ==
  [loaded |-> FALSE, n_orbs |-> 0, orb_sym |-> <<>>,
   det_hf |-> [up |-> {}, dn |-> {}]]

\* hps::serialize_to_string of a determinant: its two bit patterns
Serialize(d) == <<Encode(d.up), Encode(d.dn)>>

\* the ChemSystem of a rank other than 0 when setup is entered
NewPeer ==
  [pc |-> "config", integrals |-> EmptyIntegrals, n_orbs |-> 0,
   orb_sym |-> <<>>, hci_queue |-> <<>>, dets |-> <<>>, coefs |-> <<>>]

\* the places of setup in program order; Timer::start and Timer::end wait
\* in Parallel::barrier at "start", "end_load", "start_queue", "queue_built"
Place(name) ==
  CASE name = "config" -> 0
    [] name = "start" -> 1
    [] name = "load" -> 2
    [] name = "copy" -> 3
    [] name = "end_load" -> 4
    [] name = "start_queue" -> 5
    [] name = "setup_hci_queue" -> 6
    [] name = "exited" -> 6
    [] name = "queue_built" -> 7
    [] name = "push" -> 8
    [] name = "returned" -> 9

AtBarrier(name) == name \in {"start", "end_load", "start_queue", "queue_built"}

AfterBarrier(name) ==
  CASE name = "start" -> "load"
    [] name = "end_load" -> "start_queue"
    [] name = "start_queue" -> "setup_hci_queue"
    [] name = "queue_built" -> "push"

\* MPI_Barrier returns once every process has entered it
AllArrived(name) ==
  /\ Place(pc) >= Place(name)
  /\ \A k \in DOMAIN peers : Place(peers[k].pc) >= Place(name)

FixedSetup == UNCHANGED <<det, eps_max_in, eps_min_in, connected_det, p_id, r,
                          last_call, delivered, point_group_str, sort_order,
                          n_procs, config, integrals_file, cgVars, greenVars>>

Rank0Queue == UNCHANGED <<sym_orbs, hci_queue, max_hci_queue_elem, n_entries,
                          exit_status, diagnostic>>

\* rank 0: the reads of the configuration, lines 10-19
Config0 ==
  /\ pc = "config"
  /\ n_up' = config.n_up /\ n_dn' = config.n_dn
  /\ time_sym' = config.time_sym /\ z' = config.z
  /\ point_group' = get_point_group(point_group_str)
  /\ pc' = "start"
  /\ UNCHANGED <<n_orbs, orb_sym, integrals_2b, integrals, peers, basisVars>>
  /\ Rank0Queue /\ FixedSetup

\* rank 0 leaves a barrier
Barrier0 ==
  /\ AtBarrier(pc) /\ AllArrived(pc)
  /\ pc' = AfterBarrier(pc)
  /\ UNCHANGED <<n_orbs, orb_sym, n_up, n_dn, time_sym, z, point_group,
                 integrals_2b, integrals, peers, basisVars>>
  /\ Rank0Queue /\ FixedSetup

\* if (proc_id == 0) integrals.load();
Load0 ==
  /\ pc = "load"
  /\ integrals' = [loaded |-> TRUE, n_orbs |-> integrals_file.n_orbs,
                   orb_sym |-> integrals_file.orb_sym,
                   det_hf |-> integrals_file.det_hf]
  /\ integrals_2b' = IntegralTable(integrals_file.seed, integrals_file.n_orbs)
  /\ pc' = "copy"
  /\ UNCHANGED <<n_orbs, orb_sym, n_up, n_dn, time_sym, z, point_group,
                 peers, basisVars>>
  /\ Rank0Queue /\ FixedSetup

\* n_orbs = integrals.n_orbs; orb_sym = integrals.orb_sym;
Copy0 ==
  /\ pc = "copy"
  /\ n_orbs' = integrals.n_orbs
  /\ orb_sym' = integrals.orb_sym
  /\ pc' = "end_load"
  /\ UNCHANGED <<n_up, n_dn, time_sym, z, point_group, integrals_2b,
                 integrals, peers, basisVars>>
  /\ Rank0Queue /\ FixedSetup

\* dets.push_back(serialize(integrals.det_hf)); coefs.push_back(1.0);
Push0 ==
  /\ pc = "push"
  /\ dets' = Append(dets, Serialize(integrals.det_hf))
  /\ coefs' = Append(coefs, 1)
  /\ pc' = "returned"
  /\ UNCHANGED <<n_orbs, orb_sym, n_up, n_dn, time_sym, z, point_group,
                 integrals_2b, integrals, peers>>
  /\ Rank0Queue /\ FixedSetup

PeerOnly == UNCHANGED <<n_orbs, orb_sym, n_up, n_dn, time_sym, z, point_group,
                        integrals_2b, integrals, basisVars, pc>>

\* rank k: the reads of the configuration
ConfigP(k) ==
  /\ peers[k].pc = "config"
  /\ peers' = [peers EXCEPT ![k].pc = "start"]
  /\ PeerOnly /\ Rank0Queue /\ FixedSetup

\* rank k leaves a barrier
BarrierP(k) ==
  /\ AtBarrier(peers[k].pc) /\ AllArrived(peers[k].pc)
  /\ peers' = [peers EXCEPT ![k].pc = AfterBarrier(peers[k].pc)]
  /\ PeerOnly /\ Rank0Queue /\ FixedSetup

\* rank k: proc_id != 0, integrals.load() is not called, and nothing is
\* broadcast (// Parallel::broadcast_object(integrals);)
NoLoadP(k) ==
  /\ peers[k].pc = "load"
  /\ peers' = [peers EXCEPT ![k].pc = "copy"]
  /\ PeerOnly /\ Rank0Queue /\ FixedSetup

\* rank k: n_orbs = integrals.n_orbs; orb_sym = integrals.orb_sym;
CopyP(k) ==
  /\ peers[k].pc = "copy"
  /\ peers' = [peers EXCEPT ![k].n_orbs = peers[k].integrals.n_orbs,
                            ![k].orb_sym = peers[k].integrals.orb_sym,
                            ![k].pc = "end_load"]
  /\ PeerOnly /\ Rank0Queue /\ FixedSetup

\* rank k: proc_id != 0, setup_hci_queue() is not called
NoQueueP(k) ==
  /\ peers[k].pc = "setup_hci_queue"
  /\ peers' = [peers EXCEPT ![k].pc = "queue_built"]
  /\ PeerOnly /\ Rank0Queue /\ FixedSetup

\* rank k: dets.push_back(serialize(integrals.det_hf)); coefs.push_back(1.0);
PushP(k) ==
  /\ peers[k].pc = "push"
  /\ peers' = [peers EXCEPT
                 ![k].dets = Append(@, Serialize(peers[k].integrals.det_hf)),
                 ![k].coefs = Append(@, 1),
                 ![k].pc = "returned"]
  /\ PeerOnly /\ Rank0Queue /\ FixedSetup

InitSetup ==
  /\ n_procs \in 2 .. MaxProcs
  /\ \E n \in 1 .. MaxSetupOrbs :
       \E syms \in [Orbs(n) -> 1 .. MaxOrbSym] : \E hf \in Dets(n) :
         \E seed \in 0 .. MaxSeed :
           /\ integrals_file = [n_orbs |-> n, orb_sym |-> syms,
                                det_hf |-> hf, seed |-> seed]
           /\ \E ts \in BOOLEAN : \E sign \in {-1, 1} :
                config = [n_up |-> Cardinality(hf.up),
                          n_dn |-> Cardinality(hf.dn),
                          time_sym |-> ts, z |-> sign]
  /\ point_group_str \in PointGroupStrings
  /\ sort_order \in {"keep", "reverse"}
  /\ integrals = EmptyIntegrals
  /\ integrals_2b = <<>>
  /\ peers = [k \in 1 .. n_procs - 1 |-> NewPeer]
  /\ n_orbs = 0 /\ orb_sym = <<>>
  /\ point_group = "None"
  /\ sym_orbs = <<>> /\ hci_queue = <<>>
  /\ max_hci_queue_elem = 0 /\ n_entries = 0
  /\ pc = "config" /\ exit_status = 0 /\ diagnostic = "none"
  /\ FcdUnused /\ BasisUnused /\ CgUnused /\ GreenUnused

\* the steps of the ranks other than 0
PeerConfig == \E k \in DOMAIN peers : ConfigP(k)

PeerBarrier == \E k \in DOMAIN peers : BarrierP(k)

PeerNoLoad == \E k \in DOMAIN peers : NoLoadP(k)

PeerCopy == \E k \in DOMAIN peers : CopyP(k)

PeerNoQueue == \E k \in DOMAIN peers : NoQueueP(k)

PeerPush == \E k \in DOMAIN peers : PushP(k)

NextSetup ==
  \/ Config0 \/ Barrier0 \/ Load0 \/ Copy0
  \/ SetupHciQueue \/ SetupHciQueueDooh \/ Push0
  \/ PeerConfig \/ PeerBarrier \/ PeerNoLoad
  \/ PeerCopy \/ PeerNoQueue \/ PeerPush

SpecSetup == InitSetup /\ [][NextSetup]_vars

\* C4: when setup returns on a process other than rank 0, that process holds
\* the n_orbs, the orbital symmetry labels, the reference determinant and
\* the excitation queue of rank 0; and no such process reads its integrals
\* (at the copy of n_orbs and orb_sym, at the push of det_hf) before they
\* were loaded or received.
C4_Replicated ==
  \A k \in DOMAIN peers :
    /\ peers[k].pc = "returned" =>
         /\ peers[k].n_orbs = n_orbs
         /\ peers[k].orb_sym = orb_sym
         /\ peers[k].integrals.det_hf = integrals.det_hf
         /\ peers[k].hci_queue = hci_queue
    /\ Place(peers[k].pc) > Place("copy") => peers[k].integrals.loaded

\* ------------------------------------------------------------- Green::run
GreenOrbs == 3     \* system.n_orbs is 1..GreenOrbs
MaxDets == 2       \* a primary basis has 1..MaxDets determinants
MaxRuns == 2       \* run is called at most MaxRuns times on one solver

\* the determinants of a system with nu up and nd down electrons
ElecDets(n, nu, nd) ==
  {d \in Dets(n) : Cardinality(d.up) = nu /\ Cardinality(d.dn) = nd}

\* the primary bases: pairwise distinct determinants of one system
PrimaryBases(n, nu, nd) ==
  {b \in UNION {[1 .. len -> ElecDets(n, nu, nd)] : len \in 1 .. MaxDets} :
     \A i, k \in DOMAIN b : i # k => b[i] # b[k]}

\* det.up.set(k) / det.dn.set(k)
Insert(d, k, spin) ==
  IF spin = 0 THEN [d EXCEPT !.up = @ \cup {k}]
  ELSE [d EXCEPT !.dn = @ \cup {k}]

\* det.up.has(k) / det.dn.has(k)
Has(d, k, spin) == IF spin = 0 THEN k \in d.up ELSE k \in d.dn

RECURSIVE PdetsFrom(_, _, _, _, _)
\* the loops of construct_pdets from their t-th step on: determinant
\* t \div 2n of the store, orbital (t % 2n) \div 2, up before dn
PdetsFrom(t, n, store, map, list) ==
  IF t >= Len(store) * n * 2 THEN [map |-> map, list |-> list]
  ELSE LET d == store[(t \div (2 * n)) + 1]
           k == (t % (2 * n)) \div 2
           spin == t % 2
           cand == Insert(d, k, spin)
       IN IF Has(d, k, spin) \/ cand \in DOMAIN map
          THEN PdetsFrom(t + 1, n, store, map, list)
          ELSE PdetsFrom(t + 1, n, store,
                         [x \in DOMAIN map \cup {cand} |->
                            IF x = cand THEN Len(list) ELSE map[x]],
                         Append(list, cand))

\* construct_pdets: pdet_to_id is the map as the previous calls left it
construct_pdets(n, store, map) == PdetsFrom(0, n, store, map, <<>>)

\* construct_b(j): the determinant the det_id-th primary determinant
\* becomes, or none when the loop continues
BTarget(j, det_id) ==
  LET d == dets_store[det_id]
  IN IF j < n_orbs /\ ~Has(d, j, 0) THEN {Insert(d, j, 0)}
     ELSE IF j >= n_orbs /\ ~Has(d, j - n_orbs, 1)
          THEN {Insert(d, j - n_orbs, 1)}
          ELSE {}

\* pdet_to_id[det]: operator[] of the map gives 0 for an absent key
Lookup(d) == IF d \in DOMAIN pdet_to_id THEN pdet_to_id[d] ELSE 0

\* construct_b(j): the writes b[pdet_id] = coefs_store[det_id]
BWrites(j) ==
  {[pdet_id |-> Lookup(d), det_id |-> i] :
     <<i, d>> \in {<<i, d>> \in (1 .. n_dets) \X DOMAIN pdet_to_id :
                     d \in BTarget(j, i)}}
  \cup {[pdet_id |-> 0, det_id |-> i] :
          i \in {i \in 1 .. n_dets :
                   \E d \in BTarget(j, i) : d \notin DOMAIN pdet_to_id}}

\* a write of construct_b(j) past the end of b
BOutOfBounds(j) == \E w \in BWrites(j) : w.pdet_id >= n_pdets

\* the keys operator[] adds to the map in construct_b(j)
BInserted(j) ==
  UNION {BTarget(j, i) : i \in 1 .. n_dets} \ DOMAIN pdet_to_id

\* the map after construct_b was called for the columns js
AfterLookups(js) ==
  [d \in DOMAIN pdet_to_id \cup UNION {BInserted(j) : j \in js} |-> Lookup(d)]

\* G[i][j] is an element of G
InG(g, i, j) == i < Len(g) /\ j < Len(g[i + 1])

FixedGreen == UNCHANGED <<fcdVars, queueVars, setupVars, cgVars>>

\* run, lines 284-292: store the basis, clear it, construct_pdets
ExtendBasis ==
  /\ green_pc = "Idle"
  /\ dets_store' = dets
  /\ coefs_store' = coefs
  /\ n_dets' = Len(dets)
  /\ LET res == construct_pdets(n_orbs, dets, pdet_to_id)
     IN /\ pdet_to_id' = res.map
        /\ dets' = res.list
        /\ n_pdets' = Len(res.list)
        /\ coefs' = [i \in 1 .. Len(res.list) |-> 0]
  /\ green_pc' = "BasisExtended"
  /\ UNCHANGED <<G, col, runs, g_access, b_access>>
  /\ FixedGreen

\* run, lines 295-297: hamiltonian.clear, hamiltonian.update, green_ham
AssembleHamiltonian ==
  /\ green_pc = "BasisExtended"
  /\ green_pc' = "HamiltonianAssembled"
  /\ UNCHANGED <<dets_store, coefs_store, n_dets, n_pdets, pdet_to_id, G,
                 col, runs, g_access, b_access, basisVars>>
  /\ FixedGreen

\* run, lines 300-303: G.resize(n_pdets); G[i].assign(n_pdets, 0.0) for
\* i < 2 n_orbs.  G[i] with i >= n_pdets is past the end of G: the run
\* crashes or goes on
InitG ==
  /\ green_pc = "HamiltonianAssembled"
  /\ G' = [i \in 1 .. n_pdets |->
             IF i <= 2 * n_orbs THEN [c \in 1 .. n_pdets |-> 0]
             ELSE IF i <= Len(G) THEN G[i] ELSE <<>>]
  /\ g_access' = IF 2 * n_orbs > n_pdets THEN "out_of_bounds" ELSE g_access
  /\ green_pc' \in {"PerOrbitalSolve"} \cup
                   (IF 2 * n_orbs > n_pdets THEN {"Crashed"} ELSE {})
  /\ col' = 0
  /\ UNCHANGED <<dets_store, coefs_store, n_dets, n_pdets, pdet_to_id,
                 runs, b_access, basisVars>>
  /\ FixedGreen

\* run, lines 305-322, one pass for column col: construct_b(col), cg, and
\* G[i][col] = dot(construct_b(i), x) for i < 2 n_orbs.  cg returns or
\* throws; an index past the end of b or of G crashes the run or not
SolveColumn ==
  /\ green_pc = "PerOrbitalSolve" /\ col < 2 * n_orbs
  /\ \E cg_result \in {"returned", "thrown"} :
       LET rows == IF cg_result = "returned" THEN 0 .. (2 * n_orbs - 1) ELSE {}
           bcols == {col} \cup rows
           bBad == \E j \in bcols : BOutOfBounds(j)
           gBad == \E i \in rows : ~InG(G, i, col)
       IN /\ G' = [i \in 1 .. Len(G) |->
                     [c \in 1 .. Len(G[i]) |->
                        IF (i - 1) \in rows /\ c - 1 = col
                        THEN G[i][c] + 1 ELSE G[i][c]]]
          /\ pdet_to_id' = AfterLookups(bcols)
          /\ b_access' = IF bBad THEN "out_of_bounds" ELSE b_access
          /\ g_access' = IF gBad THEN "out_of_bounds" ELSE g_access
          /\ col' = IF cg_result = "returned" THEN col + 1 ELSE col
          /\ green_pc' \in
               {IF cg_result = "returned" THEN "PerOrbitalSolve" ELSE "Failed"}
               \cup (IF bBad \/ gBad THEN {"Crashed"} ELSE {})
  /\ UNCHANGED <<dets_store, coefs_store, n_dets, n_pdets, runs, basisVars>>
  /\ FixedGreen

\* output_green: reads G[i][j] for i, j < 2 n_orbs
OutputGreen ==
  /\ green_pc = "PerOrbitalSolve" /\ col = 2 * n_orbs
  /\ LET gBad == \E i, j \in 0 .. (2 * n_orbs - 1) : ~InG(G, i, j)
     IN /\ g_access' = IF gBad THEN "out_of_bounds" ELSE g_access
        /\ green_pc' \in {"Done"} \cup (IF gBad THEN {"Crashed"} ELSE {})
  /\ UNCHANGED <<dets_store, coefs_store, n_dets, n_pdets, pdet_to_id, G,
                 col, runs, b_access, basisVars>>
  /\ FixedGreen

\* the caller puts the next primary basis into the system for another run
NextBasis ==
  /\ green_pc = "Done" /\ runs < MaxRuns
  /\ dets' \in PrimaryBases(n_orbs, n_up, n_dn)
  /\ coefs' = [i \in DOMAIN dets' |-> 1]
  /\ runs' = runs + 1
  /\ green_pc' = "Idle"
  /\ UNCHANGED <<dets_store, coefs_store, n_dets, n_pdets, pdet_to_id, G,
                 col, g_access, b_access>>
  /\ FixedGreen

InitGreen ==
  /\ n_orbs \in 1 .. GreenOrbs
  /\ n_up \in 0 .. n_orbs /\ n_dn \in 0 .. n_orbs
  /\ dets \in PrimaryBases(n_orbs, n_up, n_dn)
  /\ coefs = [i \in DOMAIN dets |-> 1]
  /\ dets_store = <<>> /\ coefs_store = <<>> /\ n_dets = 0 /\ n_pdets = 0
  /\ pdet_to_id = <<>> /\ G = <<>>
  /\ green_pc = "Idle" /\ col = 0 /\ runs = 1
  /\ g_access = "in_bounds" /\ b_access = "in_bounds"
  /\ orb_sym = <<>> /\ time_sym = FALSE /\ z = 1
  /\ det = [up |-> {}, dn |-> {}] /\ eps_max_in = 0 /\ eps_min_in = 0
  /\ connected_det = [up |-> {}, dn |-> {}] /\ p_id = 0 /\ r = 0
  /\ last_call = NoCall /\ delivered = {}
  /\ QueueUnused /\ SetupUnused /\ CgUnused

NextGreen ==
  \/ ExtendBasis \/ AssembleHamiltonian \/ InitG
  \/ SolveColumn \/ OutputGreen \/ NextBasis

SpecGreen == InitGreen /\ [][NextGreen]_vars

\* C7: no access to G leaves its bounds, and when run reaches Done G has
\* 2 n_orbs rows of 2 n_orbs entries, each written once in this run.
C7_ResponseMatrix ==
  /\ g_access = "in_bounds"
  /\ green_pc = "Done" =>
       /\ Len(G) = 2 * n_orbs
       /\ \A i \in 1 .. Len(G) :
            /\ Len(G[i]) = 2 * n_orbs
            /\ \A c \in 1 .. Len(G[i]) : G[i][c] = 1

\* C8: after the basis was extended, in every run, system.dets is the
\* extension of this run's primary basis in first-insertion order without
\* duplicates, and pdet_to_id maps exactly those determinants to their
\* positions.
C8_IndexBijection ==
  green_pc = "BasisExtended" =>
    /\ dets = construct_pdets(n_orbs, dets_store, <<>>).list
    /\ \A i, k \in DOMAIN dets : i # k => dets[i] # dets[k]
    /\ DOMAIN pdet_to_id = {dets[i] : i \in DOMAIN dets}
    /\ \A i \in DOMAIN dets : pdet_to_id[dets[i]] = i - 1

\* the determinant construct_b(j) looks up for the det_id-th primary
\* determinant is the one stored at index pdet_id of the extended basis
WritesOwnIndex(j, w) ==
  /\ w.pdet_id < n_pdets
  /\ dets[w.pdet_id + 1] \in BTarget(j, w.det_id)

\* C11: in construct_b(j), for each spin-orbital j of the solve, every
\* index written is an index of b, no two iterations of the loop write the
\* same index, and the index written for a primary determinant is that of
\* the extended determinant it becomes with an electron in j; so b does not
\* depend on the order of the iterations.
C11_DisjointValidWrites ==
  /\ b_access = "in_bounds"
  /\ green_pc = "PerOrbitalSolve" =>
       \A j \in 0 .. (2 * n_orbs - 1) :
         /\ \A w \in BWrites(j) : WritesOwnIndex(j, w)
         /\ \A w1, w2 \in BWrites(j) :
              w1.det_id # w2.det_id => w1.pdet_id # w2.pdet_id

====
